---- MODULE Spec2Model ----
(***************************************************************************)
(* Model of qubit_readout/benchmarking/fidelity.py: the three entry points *)
(* optimal_read_time, stc_fidelity and er_fidelity.                        *)
(*                                                                         *)
(* Numbers.  The arithmetic the module itself does with + - * / on its     *)
(* arguments is modelled exactly, on rationals <<n, d>> in lowest terms.   *)
(* The results of the library's transcendental functions (math.log,        *)
(* math.exp, math.erf, numpy.power) are machine numbers of limited         *)
(* precision; they are modelled as fixed-point numbers with FxOne units    *)
(* to 1, rounded as the operators below say.  The logarithm of             *)
(* optimal_read_time is carried as a rigorous enclosure [lo, hi] together  *)
(* with its exact sign.                                                    *)
(***************************************************************************)
EXTENDS Integers, Sequences, FiniteSets, TLC

VARIABLES pc, call, prev, result, env, cache, jIdx, ch, quad

vars == <<pc, call, prev, result, env, cache, jIdx, ch, quad>>

(***************************************************************************)
(* Bounds of the model.                                                    *)
(***************************************************************************)
\* largest time constant / readout time passed to optimal_read_time, stc_fidelity
MaxTime == 4

\* largest out_time_excited and in_time_ground passed to er_fidelity
MaxErTime == 2

\* largest threshold_num passed to er_fidelity
MaxThresholdNum == 3

(***************************************************************************)
(* Integer helpers.                                                        *)
(***************************************************************************)
Abs(a) == IF a < 0 THEN -a ELSE a

Sgn(a) == IF a > 0 THEN 1 ELSE IF a < 0 THEN -1 ELSE 0

Min2(a, b) == IF a <= b THEN a ELSE b

Max2(a, b) == IF a >= b THEN a ELSE b

\* floor(a / b) for b > 0, any a
FloorDiv(a, b) == IF a >= 0 THEN a \div b ELSE -((-a + b - 1) \div b)

\* ceil(a / b) for b > 0, any a
CeilDiv(a, b) == -FloorDiv(-a, b)

\* floor or ceiling, chosen by up
RoundDiv(a, b, up) == IF up THEN CeilDiv(a, b) ELSE FloorDiv(a, b)

RECURSIVE GCD(_, _)
GCD(a, b) == IF b = 0 THEN a ELSE GCD(b, a % b)

(***************************************************************************)
(* Exact rationals <<n, d>>, d > 0, in lowest terms: equality of rationals *)
(* is equality of pairs.                                                   *)
(***************************************************************************)
Rat(n, d) ==
    LET g == GCD(Abs(n), Abs(d))
        s == IF d < 0 THEN -1 ELSE 1
    IN  <<s * (n \div g), s * (d \div g)>>

RInt(k) == <<k, 1>>

RAdd(a, b) == Rat(a[1] * b[2] + b[1] * a[2], a[2] * b[2])

RSub(a, b) == Rat(a[1] * b[2] - b[1] * a[2], a[2] * b[2])

RMul(a, b) == Rat(a[1] * b[1], a[2] * b[2])

\* a / b, b # 0
RDiv(a, b) == Rat(a[1] * b[2], a[2] * b[1])

RLt(a, b) == a[1] * b[2] < b[1] * a[2]

RLe(a, b) == a[1] * b[2] <= b[1] * a[2]

RIsZero(a) == a[1] = 0

(***************************************************************************)
(* Fixed-point machine numbers: the integer v stands for v / FxOne.        *)
(***************************************************************************)
FxOne == 10 ^ 4

\* the rational a as a machine number, rounded towards minus infinity
FxOfRat(a) == FloorDiv(a[1] * FxOne, a[2])

\* product of two machine numbers, rounded towards minus infinity
FxMul(a, b) == FloorDiv(a * b, FxOne)

\* quotient of two machine numbers, b # 0, rounded towards minus infinity
FxDiv(a, b) == IF b > 0 THEN FloorDiv(a * FxOne, b) ELSE FloorDiv(-a * FxOne, -b)

\* machine number times exact rational
FxMulRat(a, q) == FloorDiv(a * q[1], q[2])

(***************************************************************************)
(* math.log.  LnEnc(n, d, up) is a lower (up = FALSE) or upper (up = TRUE) *)
(* bound, in fixed-point units, of ln(n / d) for integers n, d > 0.        *)
(*   ln y = k ln 2 + 2 atanh(z),  y / 2^k in [1, 2),  z = (y'-1)/(y'+1),   *)
(*   atanh z = z + z^3/3 + z^5/5 + ...      (0 <= z < 1/3)                 *)
(* Five terms are summed; the rest of the series is below 10^-6, which     *)
(* the upper bound covers with one unit.                                   *)
(***************************************************************************)
LnTerms == 5

\* bounds of ln 2 = 0.693147...
Ln2(up) == IF up THEN 6932 ELSE 6931

RECURSIVE AtanhSum(_, _, _, _, _)
\* sum over i = k .. LnTerms-1 of z^(2i+1) / (2i+1), z = a / b, p = z^(2k+1)
AtanhSum(a, b, k, p, up) ==
    IF k = LnTerms THEN 0
    ELSE RoundDiv(p, 2 * k + 1, up)
         + AtanhSum(a, b, k + 1, RoundDiv(RoundDiv(p * a, b, up) * a, b, up), up)

RECURSIVE Halvings(_, _)
\* the largest k with d * 2^k <= n, for n >= d > 0
Halvings(n, d) == IF 2 * d <= n THEN 1 + Halvings(n, 2 * d) ELSE 0

\* bound of ln(n / d) for n >= d > 0
LnGe1(n, d, up) ==
    LET k  == Halvings(n, d)
        dd == d * (2 ^ k)
        a  == n - dd
        b  == n + dd
    IN  k * Ln2(up) + 2 * AtanhSum(a, b, 0, RoundDiv(FxOne * a, b, up), up)
        + (IF up /\ a > 0 THEN 1 ELSE 0)

LnEnc(n, d, up) == IF n >= d THEN LnGe1(n, d, up) ELSE -LnGe1(d, n, ~up)

(***************************************************************************)
(* math.exp / numpy.exp on a machine number a:  e^a = e^k * e^f with       *)
(* k = floor(a), f = a - k in [0, 1), e^f by its Taylor series.            *)
(***************************************************************************)
ExpTerms == 9

\* e and 1/e as machine numbers
FxE == FxOfRat(<<271828, 10 ^ 5>>)

FxInvE == FxOfRat(<<36788, 10 ^ 5>>)

RECURSIVE ExpSeries(_, _, _)
\* sum over i = k .. ExpTerms of f^i / i!, t = f^k / k!
ExpSeries(f, k, t) ==
    IF k > ExpTerms \/ t = 0 THEN 0
    ELSE t + ExpSeries(f, k + 1, (t * f) \div (FxOne * (k + 1)))

RECURSIVE ExpInt(_, _)
\* v * e^k
ExpInt(v, k) ==
    IF k = 0 \/ v = 0 THEN v
    ELSE IF k > 0 THEN ExpInt(FxMul(v, FxE), k - 1)
    ELSE ExpInt(FxMul(v, FxInvE), k + 1)

FxExp(a) ==
    LET k == FloorDiv(a, FxOne)
        f == a - k * FxOne
    IN  ExpInt(ExpSeries(f, 0, FxOne), k)

(***************************************************************************)
(* Outcomes of a call: a returned value, or the exception it ended in.     *)
(***************************************************************************)
Returned(v) == [status |-> "ok", val |-> v]

Raised(e) == [status |-> e, val |-> <<>>]

(***************************************************************************)
(* optimal_read_time(out_time_excited, out_time_ground, relax_time), on    *)
(* integer time constants.  The value returned is c * ln(y) with           *)
(*   c = relax_time * out_time_ground * out_time_excited / x               *)
(*   y = out_time_ground * (relax_time + out_time_excited)                 *)
(*       / (relax_time * out_time_excited)                                 *)
(* It is kept as its exact sign and an enclosure [lo, hi].                 *)
(***************************************************************************)
\* Denominator with the difference of the out-times the other way round;
\* C8 tells the two apart
DenominatorSwapped(out_time_excited, out_time_ground, relax_time) ==
    relax_time * (out_time_excited - out_time_ground)
        + out_time_excited * out_time_ground

\* the denominator x of lines 53 and 83
Denominator(out_time_excited, out_time_ground, relax_time) ==
    relax_time * (out_time_ground - out_time_excited)
        + out_time_excited * out_time_ground

\* c * [lo, hi] for the rational c: lower (up = FALSE) or upper bound
ScaleEnc(c, lo, hi, up) ==
    IF c[1] >= 0
    THEN RoundDiv(c[1] * (IF up THEN hi ELSE lo), c[2], up)
    ELSE RoundDiv(c[1] * (IF up THEN lo ELSE hi), c[2], up)

optimal_read_time(out_time_excited, out_time_ground, relax_time) ==
    LET x    == Denominator(out_time_excited, out_time_ground, relax_time)
        ynum == out_time_ground * (relax_time + out_time_excited)
        yden == relax_time * out_time_excited
    IN  IF x = 0 THEN Raised("ZeroDivisionError")
        ELSE IF yden = 0 THEN Raised("ZeroDivisionError")
        ELSE IF Sgn(ynum) * Sgn(yden) <= 0 THEN Raised("ValueError")
        ELSE LET c  == Rat(relax_time * out_time_ground * out_time_excited, x)
                 lo == LnEnc(Abs(ynum), Abs(yden), FALSE)
                 hi == LnEnc(Abs(ynum), Abs(yden), TRUE)
             IN  Returned([sign |-> Sgn(c[1]) * Sgn(Abs(ynum) - Abs(yden)),
                           lo   |-> ScaleEnc(c, lo, hi, FALSE),
                           hi   |-> ScaleEnc(c, lo, hi, TRUE)])

(***************************************************************************)
(* stc_fidelity(out_time_excited, out_time_ground, relax_time,             *)
(* readout_time): readout_time is << >> for None and <<t>> for a given     *)
(* window t.  Time constants are not negative here, so that every          *)
(* argument of math.exp is at most 0.                                      *)
(***************************************************************************)
stc_fidelity(out_time_excited, out_time_ground, relax_time, readout_time) ==
    LET opt == IF readout_time = <<>>
               THEN optimal_read_time(out_time_excited, out_time_ground, relax_time)
               ELSE Returned([sign |-> Sgn(readout_time[1]),
                              lo   |-> readout_time[1] * FxOne,
                              hi   |-> readout_time[1] * FxOne])
        x   == Denominator(out_time_excited, out_time_ground, relax_time)
    IN  IF opt.status # "ok" THEN opt
        ELSE IF x = 0 THEN Raised("ZeroDivisionError")
        ELSE IF out_time_ground = 0 THEN Raised("ZeroDivisionError")
        ELSE IF out_time_excited * relax_time = 0 THEN Raised("ZeroDivisionError")
        ELSE LET rt == opt.val.lo
                 e1 == FxExp(FxMulRat(-rt, Rat(1, out_time_ground)))
                 e2 == FxExp(FxMulRat(-rt, Rat(relax_time + out_time_excited,
                                               out_time_excited * relax_time)))
                 inner == (FxOne - e1) * out_time_ground * out_time_excited
                          + (e2 - FxOne) * relax_time
                                * (out_time_excited - out_time_ground)
             IN  Returned([ground_fid  |-> e1,
                           excited_fid |-> FxMulRat(inner, Rat(1, x))])

(***************************************************************************)
(* er_fidelity: the straight-line part, lines 132 to 163.                  *)
(* Arguments are integers that are not negative.                           *)
(***************************************************************************)
ErArgs(oe, itg, rt, snr, sr, fc, num) ==
    [out_time_excited |-> oe, in_time_ground |-> itg, readout_time |-> rt,
     snr |-> snr, sample_rate |-> sr, filter_cutoff |-> fc, threshold_num |-> num]

\* the grid without its end point, as linspace(..., endpoint=False) gives;
\* C4 tells it from linspace
linspaceNoEndpoint(num) == [i \in 1 .. num |-> Rat(i - 1, num)]

\* numpy.linspace(0, 1, num) for num >= 0
linspace(num) ==
    IF num = 1 THEN <<RInt(0)>>
    ELSE [i \in 1 .. num |-> Rat(i - 1, num - 1)]

\* the standard normal distribution function at 0, 0.5, 1, ... , 4
\* (0.5 * (1 + erf(z / sqrt 2)), to four decimals)
NormalCdfTable == <<5000, 6915, 8413, 9332, 9772, 9938, 9987, 9998, 10000>>

\* the distribution function at the rational z >= 0, interpolated in the table
NormalCdfPos(z) ==
    LET k == FloorDiv(2 * z[1], z[2])
    IN  IF k + 1 >= Len(NormalCdfTable) THEN FxOne
        ELSE NormalCdfTable[k + 1]
             + FloorDiv((NormalCdfTable[k + 2] - NormalCdfTable[k + 1])
                            * (2 * z[1] - k * z[2]), z[2])

\* the upper tail 1 - ncdf, the distribution function of mu - x; C5 tells
\* it from ncdf_value
ncdf_valueUpperTail(x, mu, sigma) ==
    LET z == RDiv(RSub(mu, x), sigma)
    IN  IF z[1] >= 0 THEN NormalCdfPos(z) ELSE FxOne - NormalCdfPos(<<-z[1], z[2]>>)

\* ncdf(x, mu, sigma) as a machine number, sigma > 0
ncdf_value(x, mu, sigma) ==
    LET z == RDiv(RSub(x, mu), sigma)
    IN  IF z[1] >= 0 THEN NormalCdfPos(z) ELSE FxOne - NormalCdfPos(<<-z[1], z[2]>>)

\* numpy.power(v, p) for a machine number v in [0, 1] and a rational p >= 0
FxPow(v, p) ==
    IF p[1] = 0 THEN FxOne
    ELSE IF v = 0 THEN 0
    ELSE FxExp(FxMulRat(LnEnc(v, FxOne, FALSE), p))

\* lines 132 to 163.  besselRejects: whether the installed scipy.signal.bessel
\* refuses a critical frequency of 0 (newer versions do, with a ValueError).
ErSetup(args, besselRejects) ==
    IF args.sample_rate = 0 THEN Raised("ZeroDivisionError")
    ELSE LET sample_time == Rat(1, args.sample_rate)
             fr   == RMul(RInt(2 * args.filter_cutoff), sample_time)
             tnr  == IF RLt(fr, RInt(1))
                     THEN RDiv(RMul(RInt(2), fr), RAdd(fr, RInt(1)))
                     ELSE RInt(1)
             nr   == RMul(RDiv(RInt(args.readout_time), sample_time), tnr)
             nh   == RDiv(RInt(args.in_time_ground), sample_time)
             nl   == RDiv(RInt(args.out_time_excited), sample_time)
             mul  == RInt(0)
         IN  IF args.snr = 0 THEN Raised("ZeroDivisionError")
             ELSE IF args.threshold_num = 0 THEN Raised("ValueError")
             ELSE IF args.filter_cutoff = 0 /\ besselRejects THEN Raised("ValueError")
             ELSE IF RIsZero(nr) THEN Raised("ZeroDivisionError")
             ELSE IF RIsZero(nl) THEN Raised("ZeroDivisionError")
             ELSE IF RIsZero(nh) THEN Raised("ZeroDivisionError")
             ELSE LET noise      == Rat(1, args.snr)
                      thresholds == linspace(args.threshold_num)
                      ncdf_l     == [i \in 1 .. Len(thresholds) |->
                                        ncdf_value(thresholds[i], mul, noise)]
                  IN  Returned([args        |-> args,
                                sample_time |-> sample_time,
                                fr          |-> fr,
                                tnr         |-> tnr,
                                nr          |-> nr,
                                nh          |-> nh,
                                nl          |-> nl,
                                noise       |-> noise,
                                thresholds  |-> thresholds,
                                cl          |-> [i \in 1 .. Len(thresholds) |->
                                                    FxPow(ncdf_l[i], nr)],
                                nr_inv      |-> RDiv(RInt(1), nr),
                                t_inv       |-> RDiv(RInt(1), RMul(tnr, sample_time)),
                                ncdf_l      |-> ncdf_l,
                                nl_inv      |-> RDiv(RInt(1), nl),
                                nh_inv      |-> RDiv(RInt(1), nh)])

(***************************************************************************)
(* The closures of er_fidelity and their lru_cache tables.                 *)
(*                                                                         *)
(* The value of a closure is a number fixed by its arguments and by the    *)
(* variables of the enclosing call it captures.  It is modelled as a term: *)
(* the tuple of the closure's name and everything its formula reads.  Two  *)
(* values are the same number when they are the same term.                 *)
(*                                                                         *)
(* A table maps an argument tuple to [val, by]: val is the value stored,   *)
(* by records the arguments of the er_fidelity call that stored it.        *)
(***************************************************************************)
CachedFns == {"ncdf", "funa", "Sn", "en", "etan", "fun1", "fun2"}

\* one table per closure name that outlives the call, as a cache at module
\* level would be; C7 tells it from lru_cache
lru_cacheShared(heap, f) == heap[f]

\* the table a decorator @lru_cache builds when the def statement of closure f
\* runs: a new, empty one.  heap holds the tables built by earlier calls.
lru_cache(heap, f) == <<>>

\* the key lru_cache files the call f(args) under
CacheKey(f, args) == args

\* a memoised call: the stored value on a hit, else the body's value, stored.
\* e is the environment of the running call, c the tables, body = [v, c] the
\* value the closure's body computes and the tables after computing it.
Memo(e, c, f, args, body) ==
    LET key == CacheKey(f, args)
    IN  IF key \in DOMAIN c[f]
        THEN [v |-> c[f][key].val, c |-> c]
        ELSE [v |-> body.v,
              c |-> [body.c EXCEPT ![f] = @ @@ (key :> [val |-> body.v,
                                                        by  |-> e.args])]]

\* the closures' bodies, given the values of the closures they call
ncdf(x, mu, sigma) == <<"ncdf", x, mu, sigma>>

funa(e, f) == <<"funa", f, e.args.filter_cutoff>>

Sn(e, n, vj, ncdfval) == <<"Sn", n, e.nr_inv, ncdfval, e.ncdf_l[vj + 1], e.nr>>

en(e, s) == <<"en", s, e.nl_inv, e.nr>>

etan(e, n) == <<"etan", n, e.nh_inv>>

fun(enval, etanval, Snval) == <<"mul", enval, etanval, Snval>>

\* the constant mul = 0 passed as mu on lines 148 and 160
MuLow == <<"const", RInt(0)>>

\* the memoised closures
Call_ncdf(e, c, x, mu, sigma) ==
    Memo(e, c, "ncdf", <<x, mu, sigma>>, [v |-> ncdf(x, mu, sigma), c |-> c])

Call_funa(e, c, f) ==
    Memo(e, c, "funa", <<f>>, [v |-> funa(e, f), c |-> c])

Call_Sn(e, c, n, v, vj) ==
    Memo(e, c, "Sn", <<n, v, vj>>,
         LET r1 == Call_funa(e, c, RDiv(e.t_inv, n))
             r2 == Call_ncdf(e, r1.c, v, r1.v, e.noise)
         IN  [v |-> Sn(e, n, vj, r2.v), c |-> r2.c])

Call_en(e, c, s) ==
    Memo(e, c, "en", <<s>>, [v |-> en(e, s), c |-> c])

Call_etan(e, c, n) ==
    Memo(e, c, "etan", <<n>>, [v |-> etan(e, n), c |-> c])

Call_fun1(e, c, v, j, n, s) ==
    Memo(e, c, "fun1", <<v, j, n, s>>,
         LET r1 == Call_en(e, c, s)
             r2 == Call_etan(e, r1.c, n)
             r3 == Call_Sn(e, r2.c, n, v, j)
         IN  [v |-> fun(r1.v, r2.v, r3.v), c |-> r3.c])

Call_fun2(e, c, v, j, n, s) ==
    Memo(e, c, "fun2", <<v, j, n, s>>,
         LET r1 == Call_en(e, c, s)
             r2 == Call_etan(e, r1.c, n)
             r3 == Call_Sn(e, r2.c, RSub(e.nr, s), v, j)
         IN  [v |-> fun(r1.v, r2.v, r3.v), c |-> r3.c])

RECURSIVE VectorizedNcdf(_, _, _)
\* ncdf2(thresholds, mul, noise) of lines 148 and 160: ncdf on every
\* threshold from the i-th on
VectorizedNcdf(e, c, i) ==
    IF i > Len(e.thresholds) THEN c
    ELSE VectorizedNcdf(e, Call_ncdf(e, c, e.thresholds[i], MuLow, e.noise).c, i + 1)

\* the tables when the integration starts: every closure's table new, and
\* ncdf's filled by lines 148 and 160
TablesAtStart(heap, e) ==
    VectorizedNcdf(e, [f \in CachedFns |-> lru_cache(heap, f)], 1)

(***************************************************************************)
(* Lines 191-192: the two double integrals of one threshold.               *)
(* scipy.integrate.dblquad(func, a, b, gfun, hfun) integrates func(y, x)   *)
(* for x from a to b and y from gfun(x) to hfun(x); functools.partial      *)
(* makes y = n and x = s.  The quadrature is the library's: of each        *)
(* integral the model keeps the limits and one node, the point at the      *)
(* fraction t of the way between the limits in both directions.            *)
(***************************************************************************)
Between(lo, hi, t) == RAdd(lo, RMul(t, RSub(hi, lo)))

\* limits and node of dblquad(fun1, 1, nr - 1, lambda x: 1, lambda x: nr - x)
Region1(e, t) ==
    LET a == RInt(1)
        b == RSub(e.nr, RInt(1))
        s == Between(a, b, t)
        g == RInt(1)
        h == RSub(e.nr, s)
    IN  [fn |-> "fun1", a |-> a, b |-> b, s |-> s, g |-> g, h |-> h,
         n |-> Between(g, h, t)]

\* limits and node of dblquad(fun2, 1, nr - 1, lambda x: nr - x, lambda x: 20 * nh)
Region2(e, t) ==
    LET a == RInt(1)
        b == RSub(e.nr, RInt(1))
        s == Between(a, b, t)
        g == RSub(e.nr, s)
        h == RMul(RInt(20), e.nh)
    IN  [fn |-> "fun2", a |-> a, b |-> b, s |-> s, g |-> g, h |-> h,
         n |-> Between(g, h, t)]

(***************************************************************************)
(* Lines 194-208: the correction navg, the fidelities, vis and idx.        *)
(***************************************************************************)
\* 0.0001 of line 197
Epsilon == Rat(1, 10 ^ 4)

\* ro without the perturbation; C10 tells it from Perturb
PerturbNever(ro, ri) == ro

\* lines 196-197: ro as navg reads it
Perturb(ro, ri) == IF ro = ri THEN RAdd(ro, Epsilon) ELSE ro

\* lines 194 to 197
Rates(e) ==
    LET ri == RDiv(e.tnr, e.nh)
        ro == RDiv(e.tnr, e.nl)
    IN  [ri |-> ri, ro |-> Perturb(ro, ri)]

\* line 202, one element
ExcitedFid(navg, chj, clj) ==
    FxMul(FxOne - navg, FxOne - chj) + FxMul(navg, FxOne - clj)

\* the sum without the offset - 1; C2 tells it from Visibility
VisibilityNoOffset(ground, excited) == ground + excited

\* line 204, one element
Visibility(ground, excited) == ground + excited - FxOne

RECURSIVE ArgmaxLast(_, _, _)
\* the last index of the largest element; C3 tells it from ArgmaxFrom
ArgmaxLast(v, i, best) ==
    IF i > Len(v) THEN best - 1
    ELSE ArgmaxLast(v, i + 1, IF v[i] >= v[best] THEN i ELSE best)

RECURSIVE ArgmaxFrom(_, _, _)
\* numpy.argmax (0-based): the first index of the largest element of v,
\* scanning from index i with best the best index so far
ArgmaxFrom(v, i, best) ==
    IF i > Len(v) THEN best - 1
    ELSE ArgmaxFrom(v, i + 1, IF v[i] > v[best] THEN i ELSE best)

argmax(v) == ArgmaxFrom(v, 2, 1)

\* lines 194 to 208, chv the integrals ch of the thresholds.  navg is a
\* numpy scalar: a zero denominator gives no exception but NaN or infinity
\* (nan below), which then fills excited_fid and vis; argmax of an array of
\* NaN is 0.  At the model's precision 1 - exp(0.00005) rounds to zero, so
\* that navg is 1 whenever line 197 ran.
ErResult(e, chv) ==
    LET r    == Rates(e)
        num  == FxMulRat(FxOne - FxExp(FxOfRat(RSub(RDiv(r.ro, RInt(2)),
                                                    RDiv(r.ri, RInt(2))))), r.ro)
        den1 == FxOne - FxExp(FxOfRat(RDiv(r.ro, RInt(2))))
        den2 == RSub(r.ro, r.ri)
        den  == FxMulRat(den1, den2)
        nan  == den = 0
        navg == IF nan THEN 0 ELSE FxOne - FxDiv(num, den)
        N    == Len(e.thresholds)
        ground_fid  == e.cl
        excited_fid == [i \in 1 .. N |->
                          IF nan THEN 0 ELSE ExcitedFid(navg, chv[i], e.cl[i])]
        vis == [i \in 1 .. N |->
                  IF nan THEN 0 ELSE Visibility(ground_fid[i], excited_fid[i])]
    IN  Returned([thresholds  |-> e.thresholds,
                  ground_fid  |-> ground_fid,
                  excited_fid |-> excited_fid,
                  vis         |-> vis,
                  idx         |-> argmax(vis),
                  nan         |-> nan,
                  ri          |-> r.ri,
                  ro          |-> r.ro,
                  den1        |-> den1,
                  den2        |-> den2,
                  navg        |-> navg])

(***************************************************************************)
(* STATE MACHINE.  One call runs at a time (the module is synchronous and  *)
(* single-threaded).                                                       *)
(*   pc      "idle": no call runs; "integrate": er_fidelity is in the loop *)
(*           of lines 191-192; "returned": the call has ended              *)
(*   call    the entry point called and its arguments                      *)
(*   prev    the call before it (history, for the statements about         *)
(*           sequences of calls)                                           *)
(*   result  how the call ended: the value returned or the exception       *)
(*   env     the local variables of the er_fidelity call                   *)
(*   cache   the lru_cache tables of the closures of the er_fidelity call  *)
(*           that last reached line 191 (after it returns they are garbage *)
(*           nothing refers to)                                            *)
(*   jIdx    the index j of the threshold the loop is at                   *)
(*   ch      the integrals of the thresholds done                          *)
(*   quad    the two integrals of the last threshold done: limits, node    *)
(*           and the integrand's value there                               *)
(***************************************************************************)
NoCall == [fn |-> "none", args |-> <<>>]

NoResult == [status |-> "none", val |-> <<>>]

Running == [status |-> "running", val |-> <<>>]

NoTables == [f \in CachedFns |-> <<>>]

Init ==
    /\ pc = "idle"
    /\ call = NoCall
    /\ prev = NoCall
    /\ result = NoResult
    /\ env = <<>>
    /\ cache = NoTables
    /\ jIdx = 0
    /\ ch = <<>>
    /\ quad = <<>>

\* arguments tried for optimal_read_time: valid ones and non-positive ones
Times == -1 .. MaxTime

\* arguments tried for stc_fidelity
StcTimes == 0 .. MaxTime

\* arguments tried for er_fidelity
ErTimes == 0 .. MaxErTime

ReadoutTimes == {0, 1, 2, 8}

Snrs == {0, 1, 2}

SampleRates == {0, 1, 3}

FilterCutoffs == {0, 1}

ThresholdNums == 0 .. MaxThresholdNum

AllErArgs ==
    {ErArgs(oe, itg, rt, snr, sr, fc, num) :
        oe \in ErTimes, itg \in ErTimes, rt \in ReadoutTimes, snr \in Snrs,
        sr \in SampleRates, fc \in FilterCutoffs, num \in ThresholdNums}

\* a few valid calls that differ in every variable a closure captures
FewErArgs ==
    {ErArgs(1, 1, 2, 1, 1, 1, 2), ErArgs(2, 1, 2, 1, 1, 1, 2),
     ErArgs(1, 2, 3, 2, 1, 2, 2), ErArgs(1, 1, 2, 1, 3, 1, 3)}

\* where the quadrature may put its node, as a fraction of the interval
Nodes == {Rat(1, 4), Rat(3, 4)}

\* what the quadrature may return for ch[j]
ChValues == {FxOne \div 4, FxOne}

CallOptimalReadTime ==
    /\ pc = "idle"
    /\ \E oe \in Times, og \in Times, r \in Times :
          /\ call' = [fn |-> "optimal_read_time", args |-> <<oe, og, r>>]
          /\ result' = optimal_read_time(oe, og, r)
    /\ pc' = "returned"
    /\ prev' = call
    /\ UNCHANGED <<env, cache, jIdx, ch, quad>>

CallStcFidelity ==
    /\ pc = "idle"
    /\ \E oe \in StcTimes, og \in StcTimes, r \in StcTimes,
          rt \in {<<>>} \cup {<<t>> : t \in StcTimes} :
          /\ call' = [fn |-> "stc_fidelity", args |-> <<oe, og, r, rt>>]
          /\ result' = stc_fidelity(oe, og, r, rt)
    /\ pc' = "returned"
    /\ prev' = call
    /\ UNCHANGED <<env, cache, jIdx, ch, quad>>

\* er_fidelity is called with arguments from the set S: lines 125 to 189
ErCall(S) ==
    /\ pc = "idle"
    /\ \E args \in S, besselRejects \in BOOLEAN :
          LET su == ErSetup(args, besselRejects)
          IN  /\ call' = [fn |-> "er_fidelity", args |-> args]
              /\ IF su.status = "ok"
                 THEN /\ pc' = "integrate"
                      /\ result' = Running
                      /\ env' = su.val
                      /\ cache' = TablesAtStart(cache, su.val)
                 ELSE /\ pc' = "returned"
                      /\ result' = su
                      /\ UNCHANGED <<env, cache>>
    /\ prev' = call
    /\ jIdx' = 0
    /\ ch' = <<>>
    /\ quad' = <<>>

\* one turn of the loop of lines 191-192: the two integrals of threshold jIdx
ErIntegrate ==
    /\ pc = "integrate"
    /\ jIdx < Len(env.thresholds)
    /\ \E t \in Nodes, chj \in ChValues :
          LET v_val == env.thresholds[jIdx + 1]
              q1 == Region1(env, t)
              q2 == Region2(env, t)
              r1 == Call_fun1(env, cache, v_val, jIdx, q1.n, q1.s)
              r2 == Call_fun2(env, r1.c, v_val, jIdx, q2.n, q2.s)
          IN  /\ cache' = r2.c
              /\ quad' = << [q |-> q1, v |-> v_val, j |-> jIdx, val |-> r1.v],
                            [q |-> q2, v |-> v_val, j |-> jIdx, val |-> r2.v] >>
              /\ ch' = Append(ch, chj)
    /\ jIdx' = jIdx + 1
    /\ UNCHANGED <<pc, call, prev, result, env>>

\* lines 194 to 208
ErFinish ==
    /\ pc = "integrate"
    /\ jIdx = Len(env.thresholds)
    /\ result' = ErResult(env, ch)
    /\ pc' = "returned"
    /\ UNCHANGED <<call, prev, env, cache, jIdx, ch, quad>>

\* the caller is done with the result; what the call left is collected
Drop ==
    /\ pc = "returned"
    /\ pc' = "idle"
    /\ call' = NoCall
    /\ prev' = NoCall
    /\ result' = NoResult
    /\ env' = <<>>
    /\ cache' = NoTables
    /\ jIdx' = 0
    /\ ch' = <<>>
    /\ quad' = <<>>

\* the caller goes on to its next call before anything is collected
Again ==
    /\ pc = "returned"
    /\ pc' = "idle"
    /\ UNCHANGED <<call, prev, result, env, cache, jIdx, ch, quad>>

NextOpt == CallOptimalReadTime \/ CallStcFidelity \/ Drop

SpecOpt == Init /\ [][NextOpt]_vars

NextEr == ErCall(AllErArgs) \/ ErIntegrate \/ ErFinish \/ Drop

SpecEr == Init /\ [][NextEr]_vars

NextCache == ErCall(FewErArgs) \/ ErIntegrate \/ ErFinish \/ Again

SpecCache == Init /\ [][NextCache]_vars

Next ==
    \/ CallOptimalReadTime
    \/ CallStcFidelity
    \/ ErCall(AllErArgs)
    \/ ErIntegrate
    \/ ErFinish
    \/ Drop

Spec == Init /\ [][Next]_vars

(***************************************************************************)
(* PROPERTIES                                                              *)
(***************************************************************************)
OptReturned == pc = "returned" /\ call.fn = "optimal_read_time"

ErReturned == pc = "returned" /\ call.fn = "er_fidelity" /\ result.status = "ok"

\* every argument of the er_fidelity call is positive and threshold_num >= 2
ErArgsValid(a) ==
    /\ a.out_time_excited > 0
    /\ a.in_time_ground > 0
    /\ a.readout_time > 0
    /\ a.snr > 0
    /\ a.sample_rate > 0
    /\ a.filter_cutoff > 0
    /\ a.threshold_num >= 2

\* C1: for positive time constants with out_time_ground # out_time_excited,
\* optimal_read_time returns a finite positive value: its denominator x is
\* not zero and the call does not end in a division error.
C1_FinitePositive ==
    (/\ OptReturned
     /\ \A i \in 1 .. 3 : call.args[i] > 0
     /\ call.args[2] # call.args[1])
    => /\ Denominator(call.args[1], call.args[2], call.args[3]) # 0
       /\ result.status = "ok"
       /\ result.val.sign = 1

\* The scenario of C8 in units of 0.5 ms: out_time_excited = 1 ms,
\* out_time_ground = 2 ms, relax_time = 0.5 ms.  (The formula of
\* optimal_read_time is homogeneous of degree 1 in the three times.)
C8_Scenario == <<2, 4, 1>>

C8_Called == OptReturned /\ call.args = C8_Scenario

\* C8 as stated: in the scenario the value returned is strictly greater
\* than min(out_time_excited, out_time_ground) and strictly less than
\* 10 * max(out_time_excited, out_time_ground).
C8_Original ==
    C8_Called
    => /\ result.status = "ok"
       /\ result.val.hi > Min2(C8_Scenario[1], C8_Scenario[2]) * FxOne
       /\ result.val.lo < 10 * Max2(C8_Scenario[1], C8_Scenario[2]) * FxOne

\* C8 as amended: in the scenario the value returned is strictly positive
\* and strictly less than min(out_time_excited, out_time_ground) (and so
\* strictly less than 10 * max(out_time_excited, out_time_ground)).
C8_Amended ==
    C8_Called
    => /\ result.status = "ok"
       /\ result.val.sign = 1
       /\ result.val.lo > 0
       /\ result.val.hi < Min2(C8_Scenario[1], C8_Scenario[2]) * FxOne
       /\ result.val.hi < 10 * Max2(C8_Scenario[1], C8_Scenario[2]) * FxOne

C8_Witness == C8_Called /\ result.status = "ok" /\ result.val.lo > FxOne

\* C2: for every index i of the sweep er_fidelity returns,
\* vis[i] = ground_fid[i] + excited_fid[i] - 1.
C2_VisIdentity ==
    ErReturned
    => LET r == result.val
       IN  /\ ~r.nan
           /\ DOMAIN r.vis = DOMAIN r.thresholds
           /\ \A i \in DOMAIN r.vis :
                 r.vis[i] = r.ground_fid[i] + r.excited_fid[i] - FxOne

C2_Witness ==
    /\ ErReturned
    /\ Len(result.val.vis) >= 2
    /\ \E i \in DOMAIN result.val.vis : result.val.vis[i] # 0

\* C3: best_index is an integer in [0, N), vis[best_index] >= vis[i] for
\* every i, and it is the smallest index that attains the maximum.
C3_ArgmaxFirst ==
    ErReturned
    => LET r == result.val
           N == call.args.threshold_num
       IN  /\ r.idx \in 0 .. N - 1
           /\ \A i \in 1 .. N : r.vis[r.idx + 1] >= r.vis[i]
           /\ \A i \in 1 .. r.idx : r.vis[i] < r.vis[r.idx + 1]

\* the maximum is attained at best_index and again later
C3_Witness ==
    /\ ErReturned
    /\ \E i \in DOMAIN result.val.vis :
          /\ i > result.val.idx + 1
          /\ result.val.vis[i] = result.val.vis[result.val.idx + 1]

\* the maximum is not at index 0
C3_WitnessInner == ErReturned /\ result.val.idx > 0

\* C4: for threshold_num = N >= 2 the grid has exactly N values, strictly
\* increasing and evenly spaced, from 0 to 1, and ground_fid, excited_fid
\* and vis have length N and are aligned by index to the grid.
C4_Grid ==
    (ErReturned /\ call.args.threshold_num >= 2)
    => LET r == result.val
           N == call.args.threshold_num
           t == r.thresholds
       IN  /\ Len(t) = N
           /\ t[1] = RInt(0)
           /\ t[N] = RInt(1)
           /\ \A i \in 1 .. N - 1 : RLt(t[i], t[i + 1])
           /\ \A i \in 1 .. N - 2 : RSub(t[i + 1], t[i]) = RSub(t[i + 2], t[i + 1])
           /\ Len(r.ground_fid) = N
           /\ Len(r.excited_fid) = N
           /\ Len(r.vis) = N
           /\ \A i \in 1 .. N :
                 r.ground_fid[i] = FxPow(ncdf_value(t[i], RInt(0), env.noise), env.nr)

C4_Witness == ErReturned /\ call.args.threshold_num >= 3

\* C5 as stated: ground_fid[i] lies in (0, 1] and ground_fid is
\* monotonically non-increasing as the threshold increases.
C5_Original ==
    (ErReturned /\ ErArgsValid(call.args))
    => LET g == result.val.ground_fid
       IN  /\ \A i \in DOMAIN g : 0 < g[i] /\ g[i] <= FxOne
           /\ \A i \in 1 .. Len(g) - 1 : g[i + 1] <= g[i]

\* C5 as amended: ground_fid[i] lies in [0, 1] and ground_fid is
\* monotonically non-decreasing as the threshold increases.
C5_Amended ==
    (ErReturned /\ ErArgsValid(call.args))
    => LET g == result.val.ground_fid
       IN  /\ \A i \in DOMAIN g : 0 <= g[i] /\ g[i] <= FxOne
           /\ \A i \in 1 .. Len(g) - 1 : g[i + 1] >= g[i]

\* a sweep that rises strictly at every step
C5_Witness ==
    /\ ErReturned
    /\ ErArgsValid(call.args)
    /\ Len(result.val.ground_fid) >= 3
    /\ \A i \in 1 .. Len(result.val.ground_fid) - 1 :
          result.val.ground_fid[i + 1] > result.val.ground_fid[i]

\* a sweep whose first element has underflowed to 0
C5_WitnessZero ==
    ErReturned /\ ErArgsValid(call.args) /\ result.val.ground_fid[1] = 0

\* the arguments of a call that ended
CallInvalid ==
    CASE call.fn = "optimal_read_time" -> \E i \in 1 .. 3 : call.args[i] <= 0
      [] call.fn = "stc_fidelity" ->
             \/ \E i \in 1 .. 3 : call.args[i] <= 0
             \/ call.args[4] # <<>> /\ call.args[4][1] <= 0
      [] call.fn = "er_fidelity" -> ~ErArgsValid(call.args)
      [] OTHER -> FALSE

\* C6: every entry point validates its parameters before anything else: a
\* non-positive time constant, readout_time, snr, sample_rate or
\* filter_cutoff, or threshold_num < 2, ends the call in InvalidParameter,
\* never in a returned result or another error.
C6_EagerValidation ==
    (pc = "returned" /\ CallInvalid) => result.status = "InvalidParameter"

\* the integrand without the tables: what a call that is the only call ever
\* made computes
Fresh_Sn(e, n, v, vj) ==
    Sn(e, n, vj, ncdf(v, funa(e, RDiv(e.t_inv, n)), e.noise))

Fresh_fun1(e, v, j, n, s) == fun(en(e, s), etan(e, n), Fresh_Sn(e, n, v, j))

Fresh_fun2(e, v, j, n, s) ==
    fun(en(e, s), etan(e, n), Fresh_Sn(e, RSub(e.nr, s), v, j))

\* C7: the tables of ncdf, funa, Sn, en, etan, fun1 and fun2 belong to one
\* er_fidelity call: while a call integrates, every entry of every table
\* was stored by this call, under the exact argument tuple, and every value
\* of the integrand is the one the call would compute if it were the only
\* call ever made.
C7_TablesScoped ==
    pc = "integrate"
    => /\ \A f \in CachedFns : \A k \in DOMAIN cache[f] : cache[f][k].by = call.args
       /\ \A f \in {"fun1", "fun2"} : \A k \in DOMAIN cache[f] :
             cache[f][k].val = IF f = "fun1"
                               THEN Fresh_fun1(env, k[1], k[2], k[3], k[4])
                               ELSE Fresh_fun2(env, k[1], k[2], k[3], k[4])
       /\ \A i \in DOMAIN quad :
             quad[i].val = IF quad[i].q.fn = "fun1"
                           THEN Fresh_fun1(env, quad[i].v, quad[i].j,
                                           quad[i].q.n, quad[i].q.s)
                           ELSE Fresh_fun2(env, quad[i].v, quad[i].j,
                                           quad[i].q.n, quad[i].q.s)

\* a call that follows a call with other arguments has integrated a
\* threshold: its tables are filled
C7_Witness ==
    /\ pc = "integrate"
    /\ prev.fn = "er_fidelity"
    /\ prev.args # call.args
    /\ jIdx >= 2
    /\ cache["en"] # <<>>

\* C9: for valid arguments the two double integrals cover complementary
\* regions and none is taken over reversed limits: 1 <= nr - 1, and
\* 1 <= nr - s <= 20 * nh at the node s.
C9_LimitsOrdered ==
    (pc = "integrate" /\ ErArgsValid(call.args))
    => /\ RLe(RInt(1), RSub(env.nr, RInt(1)))
       /\ \A i \in DOMAIN quad :
             LET q == quad[i].q
             IN  /\ RLe(q.a, q.b)
                 /\ RLe(q.g, q.h)
                 /\ RLe(RInt(1), RSub(env.nr, q.s))
                 /\ RLe(RSub(env.nr, q.s), RMul(RInt(20), env.nh))

\* C10: when ri = tnr / nh and ro = tnr / nl are equal, ro is perturbed by
\* 0.0001 before navg is computed, so that where navg is computed ro # ri
\* and neither ro - ri nor 1 - exp(ro / 2) is zero; when they differ, ro is
\* left as it is.
C10_Perturbed ==
    ErReturned
    => LET r   == result.val
           ri  == RDiv(env.tnr, env.nh)
           ro0 == RDiv(env.tnr, env.nl)
       IN  /\ r.ri = ri
           /\ r.ro # r.ri
           /\ ~RIsZero(r.den2)
           /\ r.den1 # 0
           /\ ~r.nan
           /\ ro0 = ri => r.ro = RAdd(ro0, Epsilon)
           /\ ro0 # ri => r.ro = ro0

\* a call with equal rates has returned
C10_Witness ==
    /\ ErReturned
    /\ RDiv(env.tnr, env.nh) = RDiv(env.tnr, env.nl)
    /\ result.val.ro = RAdd(RDiv(env.tnr, env.nl), Epsilon)

\* a call with different rates has returned
C10_WitnessDiffer ==
    ErReturned /\ RDiv(env.tnr, env.nh) # RDiv(env.tnr, env.nl)

====
